---- MODULE Spec2Model ----
(***************************************************************************)
(* A model of the mars-trie sources: the TAIL (src/src/louds_trie/tail.rs), *)
(* the dictionary settings (src/src/config.rs) and the exact-lookup read    *)
(* path (src/src/louds_trie/nav.rs).                                        *)
(***************************************************************************)
EXTENDS Integers, Sequences, FiniteSets, TLC

VARIABLES
    \* ---- TAIL (tail.rs) ----
    entries,      \* the caller's entry list, by input position (entry bytes in entry.iter() order)
    reqMode,      \* the TailMode handed to Tail::build
    tpc,          \* "new" | "built" | "failed" | "restored" | "restore_failed" |
                  \* "cleared" | "new_restore_failed" | "cleared_restore_failed"
    tail,         \* the Tail: [buf_, end_flags_]
    offsets,      \* *offsets after build: sequence, position i+1 holds offsets[i]
    pushed,       \* ghost: <<id, offset>> of every entry build appended, in append order
    effMode,      \* ghost: the mode build encoded with
    tailErr,      \* "none" or the panic message
    restoreOff,   \* the offset handed to the last restore
    key_in,       \* key_out before the last restore
    key_out,      \* key_out after the last restore
    \* ---- Config (config.rs) ----
    cfg,          \* the Config under operation: [num_tries_, cache_level_, tail_mode_, node_order_]
    cpc,          \* "ready" | "flagged" | "reparsed" | "input" | "parsed" | "rejected"
    flagsIn,      \* the flag word handed to Config::parse
    word,         \* the last result of Config::flags
    cfg2,         \* the Config that Config::parse(word) returned
    cerr,         \* "none" or the panic message of the last parse
    \* ---- exact lookup (nav.rs) ----
    keys,         \* ghost: the key set the dictionary was built from
    dict,         \* the dictionary: [tries, tail], tries[1] the outermost level
    query,        \* agent.query()
    query_pos,    \* state.query_pos()
    node_id,      \* state.node_id()
    lpc,          \* "idle" | "running" | "found" | "notfound"
    key_id,       \* the key id lookup reported, INVALID before
    calls,        \* ghost: the number of find_child calls lookup made
    fc,           \* ghost: the last find_child call: [node, qpos, ok, path, tried]
    oobRead,      \* ghost: a query byte at an index >= len(query) was read
    \* ---- NumTries (config.rs) ----
    numIn,        \* the u32 handed to NumTries::new
    nt,           \* the NumTries under operation: its num_ (0 while there is none)
    ntpc,         \* "idle" | "input" | "ok" | "new_panicked" | "shrunk" | "shrink_panicked"
    shrunk,       \* the items of the iterator shrink returned, as a sequence
    \* ---- Key / ReverseKey (key.rs) ----
    key,          \* the key under operation: [kind, slice_, bits_, id_]
    kprev,        \* ghost: the key before the last operation
    kpc,          \* "idle" | "ready" | "sliced" | "bound_error" | "converted" |
                  \* "arith_overflow" | "index_panic"
    kpos,         \* the pos handed to the last subslice
    klen,         \* the length handed to the last subslice
    \* ---- Ctz (vector/intrinsic.rs) ----
    ctzTy,        \* the operand type: "u8" | "u16" | "u32" | "u64" | "usize32" | "usize64"
    ctzIn,        \* the operand, as the set of its 1-bit positions
    ctzpc,        \* "idle" | "input" | "returned" | "overflow_panic"
    ctzOut        \* the u32 that ctz returned

tailVars == <<entries, reqMode, tpc, tail, offsets, pushed, effMode, tailErr,
              restoreOff, key_in, key_out>>

configVars == <<cfg, cpc, flagsIn, word, cfg2, cerr>>

lookupVars == <<keys, dict, query, query_pos, node_id, lpc, key_id, calls, fc, oobRead>>

numVars == <<numIn, nt, ntpc, shrunk>>

keyVars == <<key, kprev, kpc, kpos, klen>>

ctzVars == <<ctzTy, ctzIn, ctzpc, ctzOut>>

restVars == <<numVars, keyVars, ctzVars>>

vars == <<tailVars, configVars, lookupVars, restVars>>

\* ------------------------------------------------------------------ bounds
MaxEntries == 3
MaxEntryLen == 2
MaxTailBytes == 5
MaxKeys == 2
MaxKeyLen == 3
MaxKeyBytes == 6
MaxQuery == 3
MaxNumIn == 130
MaxSliceLen == 3
UsizeMax == 15

\* The byte values the model draws entries from (0 is the Text terminator).
TailBytes == {0, 1, 2}

\* ------------------------------------------------------------ sequences
RECURSIVE SeqsUpTo(_, _)
SeqsUpTo(S, n) ==
    IF n = 0 THEN {<<>>}
    ELSE LET shorter == SeqsUpTo(S, n - 1)
         IN  shorter \cup {Append(s, x) : s \in {t \in shorter : Len(t) = n - 1}, x \in S}

Reverse(s) == [i \in 1..Len(s) |-> s[Len(s) + 1 - i]]

RECURSIVE SumLen(_)
SumLen(es) == IF es = <<>> THEN 0 ELSE Len(Head(es)) + SumLen(Tail(es))

\* -------------------------------------------------------------- config.rs
Text == "Text"
Binary == "Binary"

\* u32 bit operations.
RECURSIVE BitAnd(_, _)
BitAnd(a, b) ==
    IF a = 0 \/ b = 0 THEN 0
    ELSE (a % 2) * (b % 2) + 2 * BitAnd(a \div 2, b \div 2)

RECURSIVE BitOr(_, _)
BitOr(a, b) ==
    IF a = 0 THEN b
    ELSE IF b = 0 THEN a
    ELSE (IF a % 2 = 1 \/ b % 2 = 1 THEN 1 ELSE 0) + 2 * BitOr(a \div 2, b \div 2)

\* a & !b, bit by bit (the complement of b is never formed).
RECURSIVE BitAndNot(_, _)
BitAndNot(a, b) ==
    IF a = 0 THEN 0
    ELSE (a % 2) * (1 - (b % 2)) + 2 * BitAndNot(a \div 2, b \div 2)

MIN_NUM_TRIES == 1
MAX_NUM_TRIES == 127
DEFAULT_NUM_TRIES == 3

\* `as u32` of the three enums.
CacheLevels == {"Huge", "Large", "Normal", "Small", "Tiny"}
CacheLevelU32(c) ==
    CASE c = "Huge" -> 128
      [] c = "Large" -> 256
      [] c = "Normal" -> 512
      [] c = "Small" -> 1024
      [] c = "Tiny" -> 2048
TailModes == {Text, Binary}
TailModeU32(m) == IF m = Text THEN 4096 ELSE 8192
NodeOrders == {"Label", "Weight"}
NodeOrderU32(o) == IF o = "Label" THEN 65536 ELSE 131072

NUM_TRIES_MASK == 127
CACHE_LEVEL_MASK == 3968
TAIL_MODE_MASK == 61440
NODE_ORDER_MASK == 983040
CONFIG_MASK == 1048575

\* NumTries::new: the assert on the range.
NumTriesOk(num) == num >= MIN_NUM_TRIES /\ num <= MAX_NUM_TRIES

\* config.rs 15-18: NumTries::new; ok = FALSE when the assert fails.
NumTriesNewAcceptZero(num) == [ok |-> num <= MAX_NUM_TRIES, num_ |-> num]
NumTriesNew(num) == [ok |-> NumTriesOk(num), num_ |-> num]

\* config.rs 34-39: NumTries::shrink; ok = FALSE when NumTries::new(fewer)
\* panics, items are the items of the returned iterator.
NumTriesShrink(n) ==
    LET fewer == NumTriesNew(n \div 2)
    IN  IF ~fewer.ok THEN [ok |-> FALSE, items |-> <<>>]
        ELSE IF fewer.num_ > 0 THEN [ok |-> TRUE, items |-> <<fewer.num_>>]
        ELSE [ok |-> TRUE, items |-> <<>>]

\* Config::new: every field at its Default.
ConfigNew ==
    [num_tries_ |-> DEFAULT_NUM_TRIES, cache_level_ |-> "Normal",
     tail_mode_ |-> Text, node_order_ |-> "Weight"]

\* The four field parsers: [ok, cfg], ok = FALSE for a panic.
parse_num_tries_keep_zero(c, config_flags) ==
    [ok |-> TRUE, cfg |-> [c EXCEPT !.num_tries_ = BitAnd(config_flags, NUM_TRIES_MASK)]]
parse_num_tries(c, config_flags) ==
    LET num_tries == BitAnd(config_flags, NUM_TRIES_MASK)
    IN  IF num_tries # 0
        THEN [ok |-> NumTriesOk(num_tries), cfg |-> [c EXCEPT !.num_tries_ = num_tries]]
        ELSE [ok |-> TRUE, cfg |-> c]

parse_cache_level_lenient(c, config_flags) ==
    LET x == BitAnd(config_flags, CACHE_LEVEL_MASK)
    IN  IF \E l \in CacheLevels : x = CacheLevelU32(l)
        THEN [ok |-> TRUE,
              cfg |-> [c EXCEPT !.cache_level_ = CHOOSE l \in CacheLevels : x = CacheLevelU32(l)]]
        ELSE [ok |-> TRUE, cfg |-> [c EXCEPT !.cache_level_ = "Normal"]]
parse_cache_level(c, config_flags) ==
    LET x == BitAnd(config_flags, CACHE_LEVEL_MASK)
    IN  IF x = 0 THEN [ok |-> TRUE, cfg |-> [c EXCEPT !.cache_level_ = "Normal"]]
        ELSE IF \E l \in CacheLevels : x = CacheLevelU32(l)
        THEN [ok |-> TRUE,
              cfg |-> [c EXCEPT !.cache_level_ = CHOOSE l \in CacheLevels : x = CacheLevelU32(l)]]
        ELSE [ok |-> FALSE, cfg |-> c]

parse_tail_mode(c, config_flags) ==
    LET x == BitAnd(config_flags, TAIL_MODE_MASK)
    IN  IF x = 0 THEN [ok |-> TRUE, cfg |-> [c EXCEPT !.tail_mode_ = Text]]
        ELSE IF x = TailModeU32(Text) THEN [ok |-> TRUE, cfg |-> [c EXCEPT !.tail_mode_ = Text]]
        ELSE IF x = TailModeU32(Binary) THEN [ok |-> TRUE, cfg |-> [c EXCEPT !.tail_mode_ = Binary]]
        ELSE [ok |-> FALSE, cfg |-> c]

parse_node_order(c, config_flags) ==
    LET x == BitAnd(config_flags, NODE_ORDER_MASK)
    IN  IF x = 0 THEN [ok |-> TRUE, cfg |-> [c EXCEPT !.node_order_ = "Weight"]]
        ELSE IF x = NodeOrderU32("Label") THEN [ok |-> TRUE, cfg |-> [c EXCEPT !.node_order_ = "Label"]]
        ELSE IF x = NodeOrderU32("Weight") THEN [ok |-> TRUE, cfg |-> [c EXCEPT !.node_order_ = "Weight"]]
        ELSE [ok |-> FALSE, cfg |-> c]

\* Config::parse: [err, cfg]; err names the panic, cfg is meaningful when err = "none".
ConfigParse(config_flags) ==
    IF BitAndNot(config_flags, CONFIG_MASK) # 0
    THEN [err |-> "MARISA_CODE_ERROR", cfg |-> ConfigNew]
    ELSE LET a == parse_num_tries(ConfigNew, config_flags)
             b == parse_cache_level(a.cfg, config_flags)
             c == parse_tail_mode(b.cfg, config_flags)
             d == parse_node_order(c.cfg, config_flags)
         IN  IF ~a.ok THEN [err |-> "NumTries::new", cfg |-> ConfigNew]
             ELSE IF ~b.ok THEN [err |-> "MARISA_CODE_ERROR: undefined cache level", cfg |-> ConfigNew]
             ELSE IF ~c.ok THEN [err |-> "MARISA_CODE_ERROR: undefined tail mode", cfg |-> ConfigNew]
             ELSE IF ~d.ok THEN [err |-> "MARISA_CODE_ERROR: undefined node order", cfg |-> ConfigNew]
             ELSE [err |-> "none", cfg |-> d.cfg]

\* Config::flags.
ConfigFlags(c) ==
    BitOr(BitOr(c.num_tries_, TailModeU32(c.tail_mode_)), NodeOrderU32(c.node_order_))

\* ------------------------------------------------------------------ key.rs
\* usize arithmetic, at the model's width: the wrapped value and whether the
\* exact result was out of range.
UsizeSub(a, b) == [v |-> (a - b + UsizeMax + 1) % (UsizeMax + 1), overflow |-> b > a]
UsizeAdd(a, b) == [v |-> (a + b) % (UsizeMax + 1), overflow |-> a + b > UsizeMax]

\* key.rs 58-60, 149-151: Key::new / ReverseKey::new.
KeyNew(kind, slice) == [kind |-> kind, slice_ |-> slice, bits_ |-> 0, id_ |-> 0]

\* key.rs 112-114, 205-207: len.
KeyLen(k) == Len(k.slice_)

\* key.rs 78-80: Key::at; key.rs 169-171: ReverseKey::at.
KeyAt(k, i) ==
    IF k.kind = "Key" THEN k.slice_[i + 1]
    ELSE k.slice_[(KeyLen(k) - i - 1) + 1]

\* key.rs 82-83, 173-174: the two asserts of subslice: ok, and whether the
\* subtraction underflowed.
SubsliceCheckSum(k, pos, length) ==
    LET e == UsizeAdd(pos, length)
    IN  [ok |-> e.v <= KeyLen(k), overflow |-> e.overflow]
SubsliceCheck(k, pos, length) ==
    IF ~(length <= KeyLen(k)) THEN [ok |-> FALSE, overflow |-> FALSE]
    ELSE LET d == UsizeSub(KeyLen(k), length)
         IN  [ok |-> pos <= d.v, overflow |-> d.overflow]

\* key.rs 84: Key::subslice, the new slice &slice_[pos..pos+length].
KeySlice(k, pos, length) == SubSeq(k.slice_, pos + 1, pos + length)

\* key.rs 175-177: ReverseKey::subslice, the new slice
\* &slice_[new_begin..new_end].
ReverseKeySliceFromFront(k, pos, length) == SubSeq(k.slice_, pos + 1, pos + length)
ReverseKeySlice(k, pos, length) ==
    LET new_end == KeyLen(k) - pos
        new_begin == new_end - length
    IN  SubSeq(k.slice_, new_begin + 1, new_end)

\* key.rs 81-85, 172-178: subslice: [err, overflow, key]; a failed assert
\* leaves the key as it was, and so does a range outside the slice, which
\* panics in the slice index.
KeySubslice(k, pos, length) ==
    LET c == SubsliceCheck(k, pos, length)
    IN  IF ~c.ok THEN [err |-> "MARISA_BOUND_ERROR", overflow |-> c.overflow, key |-> k]
        ELSE IF pos + length > KeyLen(k)
        THEN [err |-> "slice index out of range", overflow |-> c.overflow, key |-> k]
        ELSE [err |-> "none", overflow |-> c.overflow,
              key |-> [k EXCEPT !.slice_ = IF k.kind = "Key" THEN KeySlice(k, pos, length)
                                           ELSE ReverseKeySlice(k, pos, length)]]

\* key.rs 157-159: ReverseKey::from_key: new(key.get_slice()) with the
\* key's weight.
ReverseKeyFromKey(k) == [KeyNew("ReverseKey", k.slice_) EXCEPT !.bits_ = k.bits_]

\* ------------------------------------------------------ vector/intrinsic.rs
\* An unsigned value is the set of the positions of its 1-bits.
CtzTypes == {"u8", "u16", "u32", "u64", "usize32", "usize64"}

\* The bit width of the operand type (usize by target_pointer_width).
TypeBits(ty) ==
    CASE ty = "u8" -> 8
      [] ty = "u16" -> 16
      [] ty \in {"u32", "usize32"} -> 32
      [] ty \in {"u64", "usize64"} -> 64

\* intrinsic.rs 11-21, 54-66: u8, u16 and 32-bit usize are cast to u32,
\* 64-bit usize to u64; the width of the type whose ctz does the work.
WorkBits(ty) == IF ty \in {"u64", "usize64"} THEN 64 ELSE 32

\* intrinsic.rs 27, 42: -(v as iN): the negation overflows for iN::MIN; the
\* wrapped result is the two's complement, !v + 1.
NegOverflows(v, w) == v = {w - 1}
BitNotSet(v, w) == (0..(w - 1)) \ v
BitInc(v, w) ==
    IF v = 0..(w - 1) THEN {}
    ELSE LET z == CHOOSE i \in 0..(w - 1) : i \notin v /\ \A j \in 0..(i - 1) : j \in v
         IN  {i \in v : i > z} \cup {z}
WrappingNeg(v, w) == BitInc(BitNotSet(v, w), w)

\* The masks 0x..FFFF, 0x00FF.., 0x0F.., 0x33.., 0x55..: the bits whose
\* position has a 0 at the binary digit worth `half`.
CtzMask(half, w) == {i \in 0..(w - 1) : (i \div half) % 2 = 0}

\* intrinsic.rs 28-33, 43-49: the subtractions from c, one per mask that
\* meets v, from half = w / 2 down to 1.
RECURSIVE CtzSteps(_, _, _, _)
CtzSteps(v, w, half, c) ==
    IF half = 0 THEN c
    ELSE CtzSteps(v, w, half \div 2, IF v \cap CtzMask(half, w) # {} THEN c - half ELSE c)

\* intrinsic.rs 23-52: ctz of u32 / u64 (w = 32 / 64).
CtzWork(self, w) ==
    LET v == self \cap WrappingNeg(self, w)
        c == IF v # {} THEN w - 1 ELSE w
    IN  CtzSteps(v, w, w \div 2, c)

\* intrinsic.rs 11-66: ctz of every operand type: the value returned when the
\* negation wraps, and whether the negation overflows.
CtzOf(ty, self) ==
    [overflow |-> NegOverflows(self, WorkBits(ty)), value |-> CtzWork(self, WorkBits(ty))]

\* ------------------------------------------------------------ entry (Entry)
\* Entry::common_count: how many leading elements (in iteration order) agree.
RECURSIVE common_count(_, _)
common_count(a, b) ==
    IF a = <<>> \/ b = <<>> \/ Head(a) # Head(b) THEN 0
    ELSE 1 + common_count(Tail(a), Tail(b))

\* entry::cmp_slice as a strict order: lexicographic over the iteration order.
cmp_less(a, b) ==
    LET c == common_count(a, b)
    IN  IF c = Len(a) THEN c < Len(b)
        ELSE IF c = Len(b) THEN FALSE
        ELSE a[c + 1] < b[c + 1]

\* ----------------------------------------------------------------- tail.rs
TailNew == [buf_ |-> <<>>, end_flags_ |-> <<>>]

HasZero(e) == \E k \in 1..Len(e) : e[k] = 0

\* tail.rs 20-30: Text is promoted to Binary when some entry holds a zero byte.
EffectiveModeNoPromotion(es, mode) == mode
EffectiveMode(es, mode) ==
    IF mode = Text
    THEN IF \E i \in 1..Len(es) : HasZero(es[i]) THEN Binary ELSE Text
    ELSE Binary

\* tail.rs 32-41: ids are input positions (0-based); sort_by is a stable sort.
RECURSIVE InsertId(_, _, _)
InsertId(es, sorted, id) ==
    IF sorted = <<>> THEN <<id>>
    ELSE IF cmp_less(es[id + 1], es[Head(sorted) + 1])
         THEN <<id>> \o sorted
         ELSE <<Head(sorted)>> \o InsertId(es, Tail(sorted), id)

RECURSIVE SortIdsFrom(_, _)
SortIdsFrom(es, n) ==
    IF n = 0 THEN <<>> ELSE InsertId(es, SortIdsFrom(es, n - 1), n - 1)

SortIds(es) == SortIdsFrom(es, Len(es))

\* tail.rs 66-80: append one entry (bytes in entry.iter().rev() order).
EndFlagsForAllSet(e) == [k \in 1..Len(e) |-> TRUE]
EndFlagsFor(e) == [k \in 1..Len(e) |-> k = Len(e)]

PushEntryNoTerminator(st, e, id, mode) ==
    [st EXCEPT !.buf_ = st.buf_ \o Reverse(e),
               !.tmp = [st.tmp EXCEPT ![id] = Len(st.buf_)],
               !.pushed = Append(st.pushed, <<id, Len(st.buf_)>>)]
PushEntry(st, e, id, mode) ==
    [st EXCEPT !.buf_ = IF mode = Text THEN st.buf_ \o Reverse(e) \o <<0>>
                        ELSE st.buf_ \o Reverse(e),
               !.end_flags_ = IF mode = Text THEN st.end_flags_
                              ELSE st.end_flags_ \o EndFlagsFor(e),
               !.tmp = [st.tmp EXCEPT ![id] = Len(st.buf_)],
               !.pushed = Append(st.pushed, <<id, Len(st.buf_)>>)]

\* tail.rs 50-57: the entry is shared with the previously visited one.
ShareEntryNoDiff(st, e, id, es) ==
    [st EXCEPT !.tmp = [st.tmp EXCEPT ![id] = st.tmp[st.last]]]
ShareEntry(st, e, id, es) ==
    [st EXCEPT !.tmp = [st.tmp EXCEPT ![id] =
                           st.tmp[st.last] + (Len(es[st.last + 1]) - Len(e))]]

\* tail.rs 50-64: doPush, false when the entry is a prefix (in iteration
\* order) of the entry visited before it.
DoPushAlways(st, e, es) == TRUE
DoPush(st, e, es) ==
    IF st.last = -1 THEN TRUE
    ELSE common_count(e, es[st.last + 1]) # Len(e)

\* tail.rs 47-85: one iteration of `for entry in entries.iter().rev()`.
BuildStep(st, es, id, mode) ==
    LET e == es[id + 1]
    IN  IF st.err # "none" THEN st
        ELSE IF e = <<>> THEN [st EXCEPT !.err = "MARISA_RANGE_ERROR"]
        ELSE LET doPush == DoPush(st, e, es)
                 next == IF doPush THEN PushEntry(st, e, id, mode)
                         ELSE ShareEntry(st, e, id, es)
             IN  [next EXCEPT !.last = id]

RECURSIVE BuildLoop(_, _, _, _, _)
BuildLoop(st, es, sorted, k, mode) ==
    IF k = 0 THEN st
    ELSE BuildLoop(BuildStep(st, es, sorted[k], mode), es, sorted, k - 1, mode)

\* tail.rs 18-89: Tail::build.
TailBuild(es, mode) ==
    LET eff == EffectiveMode(es, mode)
        sorted == SortIds(es)
        st0 == [buf_ |-> <<>>, end_flags_ |-> <<>>,
                tmp |-> [i \in 0..(Len(es) - 1) |-> 0],
                last |-> -1, pushed |-> <<>>, err |-> "none"]
        st == BuildLoop(st0, es, sorted, Len(es), eff)
    IN  [tail |-> [buf_ |-> st.buf_, end_flags_ |-> st.end_flags_],
         offsets |-> [i \in 1..Len(es) |-> st.tmp[i - 1]],
         pushed |-> st.pushed, mode |-> eff, err |-> st.err]

\* tail.rs 94-98: the null-terminated walk.
RECURSIVE RestoreText(_, _, _)
RestoreText(buf, pos, out) ==
    IF pos >= Len(buf) THEN out
    ELSE IF buf[pos + 1] = 0 THEN out
    ELSE RestoreText(buf, pos + 1, Append(out, buf[pos + 1]))

\* tail.rs 99-104: the end-flag walk.
RECURSIVE RestoreBinary(_, _, _)
RestoreBinary(t, pos, out) ==
    IF pos >= Len(t.buf_) THEN out
    ELSE IF t.end_flags_[pos + 1] THEN Append(out, t.buf_[pos + 1])
    ELSE RestoreBinary(t, pos + 1, Append(out, t.buf_[pos + 1]))

\* tail.rs 91-105: Tail::restore (called on a non-empty buffer).
TailRestore(t, offset, out) ==
    IF t.end_flags_ = <<>> THEN RestoreText(t.buf_, offset, out)
    ELSE RestoreBinary(t, offset, out)

\* tail.rs 92: assert!(!self.buf_.is_empty(), "MARISA_STATE_ERROR").
RestoreCheckNone(t) == TRUE
RestoreCheck(t) == t.buf_ # <<>>

\* tail.rs 95-96, 100-102: the indexes of buf_ the walk of restore visits
\* (the iterator ends at the end of buf_) ...
RECURSIVE RestoreBufReads(_, _)
RestoreBufReads(t, pos) ==
    IF pos >= Len(t.buf_) THEN {}
    ELSE {pos} \cup
         IF t.end_flags_ = <<>>
         THEN IF t.buf_[pos + 1] = 0 THEN {} ELSE RestoreBufReads(t, pos + 1)
         ELSE IF pos < Len(t.end_flags_) /\ ~t.end_flags_[pos + 1]
              THEN RestoreBufReads(t, pos + 1) ELSE {}

\* ... and tail.rs 102: the indexes i + offset it passes to end_flags_.at.
RestoreFlagReads(t, pos) ==
    IF t.end_flags_ = <<>> THEN {} ELSE RestoreBufReads(t, pos)

\* tail.rs 146-148: Tail::clear.
TailClear(t) == TailNew

\* tail.rs 157-160: Tail::mode.
TailModeOf(t) == IF t.end_flags_ = <<>> THEN Text ELSE Binary

\* -------------------------------------------------------- bit vector (4.1)
\* rank1(B, i): the number of 1-bits in B[0..i).
RECURSIVE rank1(_, _)
rank1(B, i) == IF i = 0 THEN 0 ELSE rank1(B, i - 1) + (IF B[i] THEN 1 ELSE 0)

rank0(B, i) == i - rank1(B, i)

\* select1(B, r): the least i with rank1(i + 1) = r + 1; select0 likewise.
\* SelectFrom walks B from position i to the r-th further bit equal to bit.
RECURSIVE SelectFrom(_, _, _, _)
SelectFrom(B, bit, r, i) ==
    IF B[i + 1] # bit THEN SelectFrom(B, bit, r, i + 1)
    ELSE IF r = 0 THEN i
    ELSE SelectFrom(B, bit, r - 1, i + 1)
select1(B, r) == SelectFrom(B, TRUE, r, 0)
select0(B, r) == SelectFrom(B, FALSE, r, 0)

\* ------------------------------------------------ trie builder (4.4, 4.6)
RECURSIVE SortedSeq(_)
SortedSeq(S) ==
    IF S = {} THEN <<>>
    ELSE LET x == CHOOSE y \in S : \A z \in S : y <= z
         IN  <<x>> \o SortedSeq(S \ {x})

\* The children of build node nd (id `id`): one per distinct next byte, in
\* ascending label order; a group of one key with two or more bytes left
\* becomes a linked edge carrying the whole remaining suffix.
ChildOf(nd, id, b) ==
    LET G == {k \in nd.keys : Len(k) > nd.pos /\ k[nd.pos + 1] = b}
        one == CHOOSE k \in G : TRUE
    IN  IF Cardinality(G) = 1 /\ Len(one) >= nd.pos + 2
        THEN [keys |-> G, pos |-> Len(one), parent |-> id,
              label |-> SubSeq(one, nd.pos + 1, Len(one))]
        ELSE [keys |-> G, pos |-> nd.pos + 1, parent |-> id, label |-> <<b>>]

ChildrenOf(nd, id) ==
    LET bs == SortedSeq({k[nd.pos + 1] : k \in {x \in nd.keys : Len(x) > nd.pos}})
    IN  [j \in 1..Len(bs) |-> ChildOf(nd, id, bs[j])]

RECURSIVE Bfs(_, _)
Bfs(nodes, i) ==
    IF i > Len(nodes) THEN nodes
    ELSE Bfs(nodes \o ChildrenOf(nodes[i], i - 1), i + 1)

BuildNodes(ks) ==
    Bfs(<<[keys |-> ks, pos |-> 0, parent |-> -1, label |-> <<>>]>>, 1)

NumChildren(nodes, id) == Cardinality({j \in 1..Len(nodes) : nodes[j].parent = id})

\* louds: "10" for the super-root, then per node in BFS order one 1 per child
\* and a closing 0.
RECURSIVE LoudsFrom(_, _)
LoudsFrom(nodes, id) ==
    IF id >= Len(nodes) THEN <<>>
    ELSE [j \in 1..NumChildren(nodes, id) |-> TRUE] \o <<FALSE>> \o LoudsFrom(nodes, id + 1)

LoudsOf(nodes) == <<TRUE, FALSE>> \o LoudsFrom(nodes, 0)

\* The ids of the linked nodes, ascending: rank1(link_flags, id) indexes them.
LinkedIds(nodes) == SortedSeq({id \in 1..(Len(nodes) - 1) : Len(nodes[id + 1].label) >= 2})

\* The node of `nodes` at which key k ends.
TerminalNodeOf(nodes, k) ==
    CHOOSE id \in 0..(Len(nodes) - 1) : k \in nodes[id + 1].keys /\ nodes[id + 1].pos = Len(k)

INVALID == -1
CACHE_SIZE == 256

EmptyCacheEntry ==
    [parent |-> INVALID, child |-> INVALID, label |-> 0, linked |-> FALSE, link |-> INVALID]

RECURSIVE BitXor(_, _)
BitXor(a, b) ==
    IF a = 0 THEN b
    ELSE IF b = 0 THEN a
    ELSE ((a + b) % 2) + 2 * BitXor(a \div 2, b \div 2)

\* nav.rs 362-364: get_cache_id(node_id, label).
get_cache_id_no_label(node, label, cache_mask) ==
    BitAnd(BitXor(node, node * 32), cache_mask)
get_cache_id(node, label, cache_mask) ==
    BitAnd(BitXor(BitXor(node, node * 32), label), cache_mask)

\* nav.rs 366-368: get_cache_id(node_id).
get_cache_id_node(node, cache_mask) == BitAnd(node, cache_mask)

\* The cache entry describing the edge into node `id` (links: id -> link).
EdgeEntry(nodes, links, id) ==
    [parent |-> nodes[id + 1].parent, child |-> id, label |-> nodes[id + 1].label[1],
     linked |-> Len(nodes[id + 1].label) >= 2,
     link |-> IF Len(nodes[id + 1].label) >= 2 THEN links[id] ELSE INVALID]

\* 4.6: the outermost level's cache, filled in node order by overwriting slot
\* get_cache_id(parent, label); only the occupied slots are kept.
OuterCache(nodes, links, mask) ==
    LET slot(id) == get_cache_id(nodes[id + 1].parent, nodes[id + 1].label[1], mask)
        ids == 1..(Len(nodes) - 1)
    IN  [c \in {slot(id) : id \in ids} |->
            EdgeEntry(nodes, links, CHOOSE id \in ids :
                /\ slot(id) = c
                /\ \A other \in ids : slot(other) = c => other <= id)]

\* 4.5: an inner level's cache, keyed by node_id & cache_mask.
InnerCache(nodes, links, mask) ==
    LET slot(id) == get_cache_id_node(id, mask)
        ids == 1..(Len(nodes) - 1)
    IN  [c \in {slot(id) : id \in ids} |->
            EdgeEntry(nodes, links, CHOOSE id \in ids :
                /\ slot(id) = c
                /\ \A other \in ids : slot(other) = c => other <= id)]

CacheSlot(t, cache_id) ==
    IF cache_id \in DOMAIN t.cache_ THEN t.cache_[cache_id] ELSE EmptyCacheEntry

\* One trie level as the read path sees it (labels and parents are kept beside
\* it for stating properties, the read path does not use them).
TrieLevel(nodes, links, cache) ==
    [n |-> Len(nodes),
     louds_ |-> LoudsOf(nodes),
     bases_ |-> [id \in 0..(Len(nodes) - 1) |->
                    IF id > 0 /\ Len(nodes[id + 1].label) = 1 THEN nodes[id + 1].label[1] ELSE 0],
     link_flags_ |-> [id \in 0..(Len(nodes) - 1) |-> Len(nodes[id + 1].label) >= 2],
     terminal_flags_ |-> [i \in 1..Len(nodes) |->
                             \E k \in nodes[i].keys : Len(k) = nodes[i].pos],
     links |-> links,
     cache_ |-> cache,
     cache_mask_ |-> CACHE_SIZE - 1,
     num_l1_nodes_ |-> NumChildren(nodes, 0),
     parent |-> [id \in 0..(Len(nodes) - 1) |-> nodes[id + 1].parent],
     label |-> [id \in 0..(Len(nodes) - 1) |-> nodes[id + 1].label]]

\* The entry of a linked label: its iteration order is the reverse of the
\* order the bytes are matched in (an inner level's labels already are).
EntryOfLabel(label, reversed) == IF reversed THEN Reverse(label) ELSE label

\* The TAIL of the deepest level, built from its linked labels.
TailOfLabels(nodes, reversed) ==
    LET ids == LinkedIds(nodes)
        r == TailBuild([j \in 1..Len(ids) |-> EntryOfLabel(nodes[ids[j] + 1].label, reversed)], Text)
    IN  [tail |-> r.tail,
         links |-> [id \in {ids[j] : j \in 1..Len(ids)} |->
                       r.offsets[CHOOSE j \in 1..Len(ids) : ids[j] = id]]]

\* A dictionary of num_tries levels (1 or 2) over `keys`; cached = FALSE
\* leaves every cache slot empty.
BuildDict(ks, num_tries, cached) ==
    LET outer == BuildNodes(ks)
        ids == LinkedIds(outer)
    IN  IF num_tries = 1
        THEN LET tl == TailOfLabels(outer, TRUE)
             IN  [tries |-> <<TrieLevel(outer, tl.links,
                                IF cached THEN OuterCache(outer, tl.links, CACHE_SIZE - 1)
                                ELSE <<>>)>>,
                  tail |-> tl.tail]
        ELSE LET inner == BuildNodes({Reverse(outer[ids[j] + 1].label) : j \in 1..Len(ids)})
                 tl == TailOfLabels(inner, FALSE)
                 olinks == [id \in {ids[j] : j \in 1..Len(ids)} |->
                               TerminalNodeOf(inner, Reverse(outer[id + 1].label))]
             IN  [tries |-> <<TrieLevel(outer, olinks,
                                IF cached THEN OuterCache(outer, olinks, CACHE_SIZE - 1)
                                ELSE <<>>),
                              TrieLevel(inner, tl.links,
                                IF cached THEN InnerCache(inner, tl.links, CACHE_SIZE - 1)
                                ELSE <<>>)>>,
                  tail |-> tl.tail]

\* ------------------------------------------------------ nav.rs: read path
\* agent.query()[i]; beyond the end the read is undefined: it yields the
\* garbage byte g.  QueryOob says that the read is out of bounds.
QueryAt(q, i, g) == IF i < Len(q) THEN q[i + 1] ELSE g
QueryOob(q, i) == i >= Len(q)

\* buf_[i]; past the end the read yields g.
BufAt(buf, i, g) == IF i < Len(buf) THEN buf[i + 1] ELSE g

\* The result of a match: ok, the new query_pos, whether a query byte at an
\* index >= len(query) was read.
MatchResult(ok, qpos, oob) == [ok |-> ok, query_pos |-> qpos, oob |-> oob]

\* nav.rs 436-447: Tail::match, Text.
RECURSIVE TailMatchTextNoBound(_, _, _, _, _, _)
TailMatchTextNoBound(t, offset, q, qpos, g, oob) ==
    LET oob2 == oob \/ QueryOob(q, qpos)
    IN  IF BufAt(t.buf_, offset, g) # QueryAt(q, qpos, g) THEN MatchResult(FALSE, qpos, oob2)
        ELSE IF BufAt(t.buf_, offset + 1, g) = 0 THEN MatchResult(TRUE, qpos + 1, oob2)
        ELSE IF offset + 1 < Len(t.buf_)
             THEN TailMatchTextNoBound(t, offset + 1, q, qpos + 1, g, oob2)
        ELSE MatchResult(FALSE, qpos + 1, oob2)
RECURSIVE TailMatchText(_, _, _, _, _, _)
TailMatchText(t, offset, q, qpos, g, oob) ==
    LET oob2 == oob \/ QueryOob(q, qpos)
    IN  IF BufAt(t.buf_, offset, g) # QueryAt(q, qpos, g) THEN MatchResult(FALSE, qpos, oob2)
        ELSE IF BufAt(t.buf_, offset + 1, g) = 0 THEN MatchResult(TRUE, qpos + 1, oob2)
        ELSE IF qpos + 1 < Len(q) THEN TailMatchText(t, offset + 1, q, qpos + 1, g, oob2)
        ELSE MatchResult(FALSE, qpos + 1, oob2)

\* nav.rs 448-459: Tail::match, Binary.
RECURSIVE TailMatchBinary(_, _, _, _, _, _)
TailMatchBinary(t, offset, q, qpos, g, oob) ==
    LET oob2 == oob \/ QueryOob(q, qpos)
    IN  IF BufAt(t.buf_, offset, g) # QueryAt(q, qpos, g) THEN MatchResult(FALSE, qpos, oob2)
        ELSE IF offset < Len(t.end_flags_) /\ t.end_flags_[offset + 1]
             THEN MatchResult(TRUE, qpos + 1, oob2)
        ELSE IF qpos + 1 < Len(q) THEN TailMatchBinary(t, offset + 1, q, qpos + 1, g, oob2)
        ELSE MatchResult(FALSE, qpos + 1, oob2)

\* nav.rs 430-460: Tail::match.
TailMatchNoAdvance(t, offset, q, qpos, g, oob) ==
    LET r == IF t.end_flags_ = <<>> THEN TailMatchText(t, offset, q, qpos, g, oob)
             ELSE TailMatchBinary(t, offset, q, qpos, g, oob)
    IN  MatchResult(r.ok, qpos, r.oob)
TailMatch(t, offset, q, qpos, g, oob) ==
    IF t.end_flags_ = <<>> THEN TailMatchText(t, offset, q, qpos, g, oob)
    ELSE TailMatchBinary(t, offset, q, qpos, g, oob)

RECURSIVE Match(_, _, _, _, _, _, _)
RECURSIVE match_(_, _, _, _, _, _, _)

\* nav.rs 370-376: LoudsTrie::match of level lvl: the next trie's match_, or
\* the TAIL at the deepest level.
Match(d, lvl, link, q, qpos, g, oob) ==
    IF lvl < Len(d.tries) THEN match_(d, lvl + 1, link, q, qpos, g, oob)
    ELSE TailMatch(d.tail, link, q, qpos, g, oob)

\* nav.rs 378-428: LoudsTrie::match_ of level lvl, one loop iteration per call.
match_(d, lvl, node, q, qpos, g, oob) ==
    LET t == d.tries[lvl]
        e == CacheSlot(t, get_cache_id_node(node, t.cache_mask_))
    IN  IF node = e.child
        THEN LET r == IF e.linked THEN Match(d, lvl, e.link, q, qpos, g, oob)
                      ELSE IF e.label = QueryAt(q, qpos, g)
                           THEN MatchResult(TRUE, qpos + 1, oob \/ QueryOob(q, qpos))
                           ELSE MatchResult(FALSE, qpos, oob \/ QueryOob(q, qpos))
             IN  IF ~r.ok THEN r
                 ELSE IF e.parent = 0 THEN r
                 ELSE IF r.query_pos >= Len(q) THEN MatchResult(FALSE, r.query_pos, r.oob)
                 ELSE match_(d, lvl, e.parent, q, r.query_pos, g, r.oob)
        ELSE LET r == IF t.link_flags_[node]
                      THEN Match(d, lvl, t.links[node], q, qpos, g, oob)
                      ELSE IF t.bases_[node] = QueryAt(q, qpos, g)
                           THEN MatchResult(TRUE, qpos + 1, oob \/ QueryOob(q, qpos))
                           ELSE MatchResult(FALSE, qpos, oob \/ QueryOob(q, qpos))
             IN  IF ~r.ok THEN r
                 ELSE IF node <= t.num_l1_nodes_ THEN r
                 ELSE IF r.query_pos >= Len(q) THEN MatchResult(FALSE, r.query_pos, r.oob)
                 ELSE match_(d, lvl, select1(t.louds_, node) - node - 1,
                             q, r.query_pos, g, r.oob)

\* The result of find_child: ok, state.node_id and state.query_pos when it
\* returns, the path taken ("hit" or "scan"), the children the scan tried.
FindResult(ok, node, qpos, oob, path, tried) ==
    [ok |-> ok, node_id |-> node, query_pos |-> qpos, oob |-> oob,
     path |-> path, tried |-> tried]

\* nav.rs 342-358: the do-while over the siblings, one iteration per call.
RECURSIVE ScanSiblingsNoCommit(_, _, _, _, _, _, _)
ScanSiblingsNoCommit(d, child, louds_pos, q, qpos, g, tried) ==
    LET t == d.tries[1]
        tr == Append(tried, child)
        c == QueryAt(q, qpos, g)
        r == IF t.link_flags_[child]
             THEN Match(d, 1, t.links[child], q, qpos, g, FALSE)
             ELSE MatchResult(t.bases_[child] = c, IF t.bases_[child] = c THEN qpos + 1 ELSE qpos,
                              QueryOob(q, qpos))
    IN  IF r.ok THEN FindResult(TRUE, child, r.query_pos, r.oob, "scan", tr)
        ELSE IF t.louds_[louds_pos + 2]
             THEN ScanSiblingsNoCommit(d, child + 1, louds_pos + 1, q, qpos, g, tr)
        ELSE FindResult(FALSE, child + 1, qpos, r.oob, "scan", tr)
RECURSIVE ScanSiblings(_, _, _, _, _, _, _)
ScanSiblings(d, child, louds_pos, q, qpos, g, tried) ==
    LET t == d.tries[1]
        tr == Append(tried, child)
        c == QueryAt(q, qpos, g)
    IN  IF t.link_flags_[child]
        THEN LET r == Match(d, 1, t.links[child], q, qpos, g, FALSE)
             IN  IF r.ok THEN FindResult(TRUE, child, r.query_pos, r.oob, "scan", tr)
                 ELSE IF r.query_pos # qpos
                      THEN FindResult(FALSE, child, r.query_pos, r.oob, "scan", tr)
                 ELSE IF t.louds_[louds_pos + 2]
                      THEN ScanSiblings(d, child + 1, louds_pos + 1, q, qpos, g, tr)
                 ELSE FindResult(FALSE, child + 1, qpos, r.oob, "scan", tr)
        ELSE IF t.bases_[child] = c
             THEN FindResult(TRUE, child, qpos + 1, QueryOob(q, qpos), "scan", tr)
        ELSE IF t.louds_[louds_pos + 2]
             THEN ScanSiblings(d, child + 1, louds_pos + 1, q, qpos, g, tr)
        ELSE FindResult(FALSE, child + 1, qpos, QueryOob(q, qpos), "scan", tr)

\* nav.rs 336-359: the cache-miss path of find_child.
FindChildScan(d, node, q, qpos, g) ==
    LET t == d.tries[1]
        louds_pos == select0(t.louds_, node) + 1
    IN  IF ~t.louds_[louds_pos + 1]
        THEN FindResult(FALSE, node, qpos, FALSE, "scan", <<>>)
        ELSE ScanSiblings(d, louds_pos - node - 1, louds_pos, q, qpos, g, <<>>)

\* nav.rs 317-360: LoudsTrie::find_child (of the outermost level).
find_child(d, node, q, qpos, g) ==
    LET t == d.tries[1]
        e == CacheSlot(t, get_cache_id(node, QueryAt(q, qpos, g), t.cache_mask_))
    IN  IF node = e.parent
        THEN IF e.linked
             THEN LET r == Match(d, 1, e.link, q, qpos, g, QueryOob(q, qpos))
                  IN  IF ~r.ok THEN FindResult(FALSE, node, r.query_pos, r.oob, "hit", <<>>)
                      ELSE FindResult(TRUE, e.child, r.query_pos, r.oob, "hit", <<>>)
             ELSE FindResult(TRUE, e.child, qpos + 1, QueryOob(q, qpos), "hit", <<>>)
        ELSE LET r == FindChildScan(d, node, q, qpos, g)
             IN  [r EXCEPT !.oob = r.oob \/ QueryOob(q, qpos)]

\* nav.rs 309-314: the end of lookup, once the query is exhausted.
LookupEndIgnoreTerminal(d, node) ==
    [found |-> TRUE, key_id |-> rank1(d.tries[1].terminal_flags_, node)]
LookupEnd(d, node) ==
    IF ~d.tries[1].terminal_flags_[node + 1]
    THEN [found |-> FALSE, key_id |-> INVALID]
    ELSE [found |-> TRUE, key_id |-> rank1(d.tries[1].terminal_flags_, node)]

\* ------------------------------------------------------------ TAIL actions
EntryPool == SeqsUpTo(TailBytes, MaxEntryLen)

\* Entry lists of at most n entries holding at most `budget` bytes in all.
RECURSIVE ListsWithin(_, _)
ListsWithin(n, budget) ==
    IF n = 0 THEN {<<>>}
    ELSE {<<>>} \cup
         UNION {{<<e>> \o rest : rest \in ListsWithin(n - 1, budget - Len(e))} :
                e \in {x \in EntryPool : Len(x) <= budget}}

EntryLists == ListsWithin(MaxEntries, MaxTailBytes)

KeyOutPool == {<<>>, <<2>>}

\* The variables of a subsystem a specification does not exercise.
TailIdle ==
    /\ entries = <<>>
    /\ reqMode = Text
    /\ tpc = "idle"
    /\ tail = TailNew
    /\ offsets = <<>>
    /\ pushed = <<>>
    /\ effMode = Text
    /\ tailErr = "none"
    /\ restoreOff = 0
    /\ key_in = <<>>
    /\ key_out = <<>>

NoCall == [node |-> 0, qpos |-> 0, ok |-> TRUE, path |-> "none", tried |-> <<>>]

LookupIdle ==
    /\ keys = {}
    /\ dict = <<>>
    /\ query = <<>>
    /\ query_pos = 0
    /\ node_id = 0
    /\ lpc = "idle"
    /\ key_id = INVALID
    /\ calls = 0
    /\ fc = NoCall
    /\ oobRead = FALSE

NumIdle ==
    /\ numIn = 0
    /\ nt = 0
    /\ ntpc = "idle"
    /\ shrunk = <<>>

NoKey == [kind |-> "Key", slice_ |-> <<>>, bits_ |-> 0, id_ |-> 0]

KeyIdle ==
    /\ key = NoKey
    /\ kprev = NoKey
    /\ kpc = "idle"
    /\ kpos = 0
    /\ klen = 0

CtzIdle ==
    /\ ctzTy = "u32"
    /\ ctzIn = {}
    /\ ctzpc = "idle"
    /\ ctzOut = 0

RestIdle == NumIdle /\ KeyIdle /\ CtzIdle

ConfigIdle ==
    /\ cfg = ConfigNew
    /\ cpc = "idle"
    /\ flagsIn = 0
    /\ word = 0
    /\ cfg2 = ConfigNew
    /\ cerr = "none"

InitTail ==
    /\ ConfigIdle
    /\ LookupIdle
    /\ RestIdle
    /\ entries \in EntryLists
    /\ reqMode \in {Text, Binary}
    /\ tpc = "new"
    /\ tail = TailNew
    /\ offsets = <<>>
    /\ pushed = <<>>
    /\ effMode = Text
    /\ tailErr = "none"
    /\ restoreOff = 0
    /\ key_in = <<>>
    /\ key_out = <<>>

\* Tail::build(entries, offsets, mode); a failed assert leaves no Tail behind.
Build ==
    /\ tpc = "new"
    /\ LET r == TailBuild(entries, reqMode)
       IN  /\ tailErr' = r.err
           /\ effMode' = r.mode
           /\ IF r.err = "none"
              THEN /\ tpc' = "built"
                   /\ tail' = r.tail
                   /\ offsets' = r.offsets
                   /\ pushed' = r.pushed
              ELSE /\ tpc' = "failed"
                   /\ UNCHANGED <<tail, offsets, pushed>>
    /\ UNCHANGED <<entries, reqMode, restoreOff, key_in, key_out>>
    /\ UNCHANGED <<configVars, lookupVars, restVars>>

\* Tail::restore(offset, key_out) on the tail as it is: new, built or cleared.
Restore ==
    /\ tpc \in {"new", "built", "cleared"}
    /\ \E off \in 0..Len(tail.buf_), out \in KeyOutPool :
          /\ restoreOff' = off
          /\ key_in' = out
          /\ IF ~RestoreCheck(tail)
             THEN /\ tailErr' = "MARISA_STATE_ERROR"
                  /\ key_out' = out
                  /\ tpc' = CASE tpc = "new" -> "new_restore_failed"
                              [] tpc = "built" -> "restore_failed"
                              [] tpc = "cleared" -> "cleared_restore_failed"
             ELSE /\ tailErr' = "none"
                  /\ key_out' = TailRestore(tail, off, out)
                  /\ tpc' = "restored"
    /\ UNCHANGED <<entries, reqMode, tail, offsets, pushed, effMode>>
    /\ UNCHANGED <<configVars, lookupVars, restVars>>

\* Tail::clear() on a built tail; the caller's offsets vector is not touched.
ClearTail ==
    /\ tpc \in {"built", "restored", "restore_failed"}
    /\ tail' = TailClear(tail)
    /\ tpc' = "cleared"
    /\ UNCHANGED <<entries, reqMode, offsets, pushed, effMode, tailErr,
                   restoreOff, key_in, key_out>>
    /\ UNCHANGED <<configVars, lookupVars, restVars>>

NextTail == Build \/ Restore \/ ClearTail

SpecTail == InitTail /\ [][NextTail]_vars

\* ------------------------------------------------------- TAIL properties
NonEmptyEntries == \A i \in 1..Len(entries) : entries[i] # <<>>
AnyZeroEntry == \E i \in 1..Len(entries) : HasZero(entries[i])
AfterBuild == tpc \in {"built", "restored", "restore_failed"}

\* The bytes build stores for the entry at input position i (0-based).
StoredBytes(i) == Reverse(entries[i + 1])

\* C1: TAIL round-trip. After a build over non-empty entries the offsets vector
\* has one element per input position, and restore(offsets[i], out) appends to
\* out exactly the stored bytes of entry i (entry.iter().rev()), shared and
\* duplicate entries included.
C1_TailRoundTrip ==
    NonEmptyEntries =>
        /\ tpc # "failed"
        /\ AfterBuild => Len(offsets) = Len(entries)
        /\ tpc = "restored" =>
              \A i \in 0..(Len(entries) - 1) :
                  restoreOff = offsets[i + 1] => key_out = key_in \o StoredBytes(i)

\* C1 witness: a restore of an entry that build did not append (it shares the
\* bytes of a longer entry), with a duplicate in the list and a non-empty out.
C1_Witness ==
    /\ tpc = "restored"
    /\ NonEmptyEntries
    /\ Len(entries) = 3
    /\ Len(pushed) = 1
    /\ key_in # <<>>
    /\ \E i, j \in 0..2 :
          /\ i # j
          /\ entries[i + 1] = entries[j + 1]
          /\ Len(entries[i + 1]) = 1
          /\ restoreOff = offsets[i + 1]
          /\ restoreOff > 0
          /\ key_out = key_in \o StoredBytes(i)

\* What "encoded as Binary" and "encoded as Text" mean for buf_ and end_flags_:
\* the appended entries lie back to back (Binary) or each followed by one zero
\* byte (Text), and end flags mark the last byte of each appended entry (Binary)
\* or are absent (Text).
PushedLen(k) == Len(entries[pushed[k][1] + 1])
PushedOff(k) == pushed[k][2]
PushedBytesAt(k) ==
    \A b \in 1..PushedLen(k) :
        tail.buf_[PushedOff(k) + b] = StoredBytes(pushed[k][1])[b]

EncodedBinary ==
    /\ Len(tail.end_flags_) = Len(tail.buf_)
    /\ Len(tail.buf_) =
          IF pushed = <<>> THEN 0
          ELSE PushedOff(Len(pushed)) + PushedLen(Len(pushed))
    /\ \A k \in 1..Len(pushed) :
          /\ PushedOff(k) = IF k = 1 THEN 0 ELSE PushedOff(k - 1) + PushedLen(k - 1)
          /\ PushedBytesAt(k)
          /\ \A b \in 1..PushedLen(k) :
                tail.end_flags_[PushedOff(k) + b] = (b = PushedLen(k))

EncodedText ==
    /\ tail.end_flags_ = <<>>
    /\ Len(tail.buf_) =
          IF pushed = <<>> THEN 0
          ELSE PushedOff(Len(pushed)) + PushedLen(Len(pushed)) + 1
    /\ \A k \in 1..Len(pushed) :
          /\ PushedOff(k) = IF k = 1 THEN 0 ELSE PushedOff(k - 1) + PushedLen(k - 1) + 1
          /\ PushedBytesAt(k)
          /\ tail.buf_[PushedOff(k) + PushedLen(k) + 1] = 0

ModeClauses ==
    /\ (AfterBuild /\ reqMode = Text /\ AnyZeroEntry) => EncodedBinary
    /\ (AfterBuild /\ reqMode = Text /\ ~AnyZeroEntry) => EncodedText
    /\ (AfterBuild /\ reqMode = Binary) => EncodedBinary

C7_TextBufRuns ==
    (AfterBuild /\ reqMode = Text /\ ~AnyZeroEntry) =>
        \/ tail.buf_ = <<>>
        \/ /\ tail.buf_[1] # 0
           /\ tail.buf_[Len(tail.buf_)] = 0
           /\ \A k \in 1..(Len(tail.buf_) - 1) :
                 ~(tail.buf_[k] = 0 /\ tail.buf_[k + 1] = 0)

\* C7 witness: a Text buffer of two runs, one of them two bytes long.
C7_Witness ==
    /\ tpc = "built"
    /\ reqMode = Text
    /\ ~AnyZeroEntry
    /\ Len(pushed) = 2
    /\ Len(tail.buf_) = 5
    /\ Len(entries) = 3

\* The states right after a call of restore that failed its assert.
RestoreRefused == tpc \in {"new_restore_failed", "restore_failed", "cleared_restore_failed"}

IsPrefixOf(a, b) == Len(a) <= Len(b) /\ SubSeq(b, 1, Len(a)) = a

\* C15: Restore error handling. restore on a tail whose buffer is empty (new,
\* cleared, or built from zero entries) fails with MARISA_STATE_ERROR and
\* leaves key_out as it was; on a non-empty tail restore at any offset returns,
\* key_out keeps the bytes it had as a prefix, and every index read from buf_
\* and from end_flags_ is below their lengths.
C15_RestoreErrorHandling ==
    /\ tpc \in {"new", "cleared"} => tail.buf_ = <<>>
    /\ (AfterBuild /\ entries = <<>>) => tail.buf_ = <<>>
    /\ RestoreRefused =>
          /\ tail.buf_ = <<>>
          /\ tailErr = "MARISA_STATE_ERROR"
          /\ key_out = key_in
    /\ tpc = "restored" =>
          /\ tail.buf_ # <<>>
          /\ tailErr = "none"
          /\ IsPrefixOf(key_in, key_out)
          /\ \A i \in RestoreBufReads(tail, restoreOff) : i < Len(tail.buf_)
          /\ \A i \in RestoreFlagReads(tail, restoreOff) : i < Len(tail.end_flags_)

\* C15 witness: restore refused on a tail that was built with bytes and then
\* cleared, the caller's key_out holding a byte.
C15_Witness ==
    /\ tpc = "cleared_restore_failed"
    /\ pushed # <<>>
    /\ key_in # <<>>
    /\ key_out = key_in

\* C15, second case: a Binary restore from the middle of a two-byte entry
\* that read the last end flag.
C15_WitnessRestored ==
    /\ tpc = "restored"
    /\ tail.end_flags_ # <<>>
    /\ key_in # <<>>
    /\ restoreOff > 0
    /\ Len(tail.buf_) - 1 \in RestoreFlagReads(tail, restoreOff)

\* The visiting order of build: Visit(1) is the last id of the sorted list.
VisitOrder == Reverse(SortIds(entries))
EntryOf(id) == entries[id + 1]
IsPushed(id) == \E j \in 1..Len(pushed) : pushed[j][1] = id
SharedAt(k) == k > 1 /\ IsPrefixOf(EntryOf(VisitOrder[k]), EntryOf(VisitOrder[k - 1]))
Terminator == IF effMode = Text THEN 1 ELSE 0

\* C16: TAIL suffix sharing. Build visits the sorted entries in reverse order.
\* An entry that is a prefix of the entry visited just before it (shared or
\* not) appends nothing and gets offset[previous] + (len(previous) - len(it));
\* every other entry is appended at the length buf_ had, in visiting order.
\* Every offset is below buf_.len(), and buf_.len() is at most the sum of
\* len + 1 (Text) or of len (Binary) over the entries.
C16_SuffixSharing ==
    (AfterBuild /\ NonEmptyEntries) =>
        /\ \A k \in 1..Len(entries) :
              LET id == VisitOrder[k]
              IN  IF SharedAt(k)
                  THEN /\ ~IsPushed(id)
                       /\ offsets[id + 1] =
                             offsets[VisitOrder[k - 1] + 1]
                               + (Len(EntryOf(VisitOrder[k - 1])) - Len(EntryOf(id)))
                  ELSE \E j \in 1..Len(pushed) :
                          /\ pushed[j] = <<id, offsets[id + 1]>>
                          /\ j = Cardinality({i \in 1..k : ~SharedAt(i)})
        /\ \A j \in 1..Len(pushed) :
              PushedOff(j) = IF j = 1 THEN 0
                             ELSE PushedOff(j - 1) + PushedLen(j - 1) + Terminator
        /\ Len(tail.buf_) = IF pushed = <<>> THEN 0
                            ELSE PushedOff(Len(pushed)) + PushedLen(Len(pushed)) + Terminator
        /\ tail.end_flags_ # <<>> => Len(tail.end_flags_) = Len(tail.buf_)
        /\ \A i \in 1..Len(offsets) : offsets[i] < Len(tail.buf_)
        /\ Len(tail.buf_) <= SumLen(entries) + Terminator * Len(entries)

\* C16 witness: three entries, one appended, the second shared with it at a
\* positive offset and the third shared with the second.
C16_Witness ==
    /\ tpc = "built"
    /\ Len(entries) = 3
    /\ NonEmptyEntries
    /\ Len(pushed) = 1
    /\ SharedAt(2)
    /\ SharedAt(3)
    /\ offsets[VisitOrder[2] + 1] > 0
    /\ offsets[VisitOrder[3] + 1] = offsets[VisitOrder[2] + 1]

\* The effective mode of the build, in the words of the claims.
EffectiveBinary == reqMode = Binary \/ AnyZeroEntry

\* The 1-based positions of buf_ holding the last byte of an appended entry.
LastBytePositions == {PushedOff(j) + PushedLen(j) : j \in 1..Len(pushed)}
OneBits == {p \in 1..Len(tail.end_flags_) : tail.end_flags_[p]}

\* C17: Binary end-flag invariant. After a build in effective Binary mode
\* end_flags_ has one bit per byte of buf_, the bit at the last byte of each
\* appended entry is 1 and every other bit is 0, the number of 1-bits is the
\* number of appended entries, and the last bit is 1 when buf_ is non-empty;
\* after a build in effective Text mode end_flags_ is empty.
C17_EndFlags ==
    (AfterBuild /\ NonEmptyEntries) =>
        IF EffectiveBinary
        THEN /\ Len(tail.end_flags_) = Len(tail.buf_)
             /\ OneBits = LastBytePositions
             /\ Cardinality(OneBits) = Len(pushed)
             /\ Len(pushed) = Cardinality({k \in 1..Len(entries) : ~SharedAt(k)})
             /\ tail.buf_ # <<>> => tail.end_flags_[Len(tail.buf_)]
        ELSE tail.end_flags_ = <<>>

\* C17 witness: a Binary tail of two appended entries and one shared entry,
\* with a 0 bit before the first 1 bit.
C17_Witness ==
    /\ tpc = "built"
    /\ reqMode = Binary
    /\ NonEmptyEntries
    /\ Len(entries) = 3
    /\ Len(pushed) = 2
    /\ Len(tail.end_flags_) >= 3
    /\ ~tail.end_flags_[1]
    /\ tail.end_flags_[Len(tail.end_flags_)]

\* C19: Effective mode reporting. After a build over any entry list, the empty
\* list included, mode() is Binary exactly when the effective mode of the
\* build was Binary (Binary requested, or Text with a zero byte in an entry)
\* and Text otherwise; restore decodes with that mode; a new or a cleared
\* tail reports Text.
C19_ModeReporting ==
    /\ AfterBuild => (TailModeOf(tail) = Binary <=> EffectiveBinary)
    /\ tpc = "restored" =>
          key_out = IF EffectiveBinary THEN RestoreBinary(tail, restoreOff, key_in)
                    ELSE RestoreText(tail.buf_, restoreOff, key_in)
    /\ tpc \in {"new", "cleared", "new_restore_failed", "cleared_restore_failed"}
          => TailModeOf(tail) = Text


\* ---------------------------------------------------------- Config actions
InitConfig ==
    /\ TailIdle
    /\ LookupIdle
    /\ RestIdle
    /\ cfg = ConfigNew
    /\ cpc = "ready"
    /\ flagsIn = 0
    /\ word = 0
    /\ cfg2 = ConfigNew
    /\ cerr = "none"

\* set_num_tries / with_num_tries: the argument is a NumTries, hence in range.
SetNumTries ==
    /\ cpc = "ready"
    /\ \E n \in MIN_NUM_TRIES..MAX_NUM_TRIES : cfg' = [cfg EXCEPT !.num_tries_ = n]
    /\ UNCHANGED <<cpc, flagsIn, word, cfg2, cerr>>
    /\ UNCHANGED <<tailVars, lookupVars, restVars>>

SetCacheLevel ==
    /\ cpc = "ready"
    /\ \E l \in CacheLevels : cfg' = [cfg EXCEPT !.cache_level_ = l]
    /\ UNCHANGED <<cpc, flagsIn, word, cfg2, cerr>>
    /\ UNCHANGED <<tailVars, lookupVars, restVars>>

SetTailMode ==
    /\ cpc = "ready"
    /\ \E m \in TailModes : cfg' = [cfg EXCEPT !.tail_mode_ = m]
    /\ UNCHANGED <<cpc, flagsIn, word, cfg2, cerr>>
    /\ UNCHANGED <<tailVars, lookupVars, restVars>>

SetNodeOrder ==
    /\ cpc = "ready"
    /\ \E o \in NodeOrders : cfg' = [cfg EXCEPT !.node_order_ = o]
    /\ UNCHANGED <<cpc, flagsIn, word, cfg2, cerr>>
    /\ UNCHANGED <<tailVars, lookupVars, restVars>>

\* Config::clear.
Clear ==
    /\ cpc = "ready"
    /\ cfg' = ConfigNew
    /\ UNCHANGED <<cpc, flagsIn, word, cfg2, cerr>>
    /\ UNCHANGED <<tailVars, lookupVars, restVars>>

\* word = cfg.flags()
Flags ==
    /\ cpc = "ready"
    /\ word' = ConfigFlags(cfg)
    /\ cpc' = "flagged"
    /\ UNCHANGED <<cfg, flagsIn, cfg2, cerr>>
    /\ UNCHANGED <<tailVars, lookupVars, restVars>>

\* cfg2 = Config::parse(word)
Reparse ==
    /\ cpc = "flagged"
    /\ LET r == ConfigParse(word)
       IN  /\ cerr' = r.err
           /\ cfg2' = r.cfg
    /\ flagsIn' = word
    /\ cpc' = "reparsed"
    /\ UNCHANGED <<cfg, word>>
    /\ UNCHANGED <<tailVars, lookupVars, restVars>>

NextConfig ==
    \/ SetNumTries
    \/ SetCacheLevel
    \/ SetTailMode
    \/ SetNodeOrder
    \/ Clear
    \/ Flags
    \/ Reparse

SpecConfig == InitConfig /\ [][NextConfig]_vars

\* The flag words handed to Config::parse: every value of the three enum
\* fields with bits above the mask clear or set, and every num_tries value
\* with a sample of the enum fields.
HighSamples == {0, 1, 2047}
FlagWords ==
    {n + 128 * c + 4096 * t + 65536 * o + 1048576 * h :
        n \in {0, MAX_NUM_TRIES}, c \in 0..31, t \in 0..15, o \in 0..15, h \in {0, 1}}
    \cup
    {n + 128 * c + 4096 * t + 65536 * o + 1048576 * h :
        n \in 0..MAX_NUM_TRIES, c \in {0, 1, 3, 16}, t \in {0, 2, 4}, o \in {0, 1, 3},
        h \in HighSamples}

InitParse ==
    /\ TailIdle
    /\ LookupIdle
    /\ RestIdle
    /\ cfg = ConfigNew
    /\ cpc = "input"
    /\ flagsIn \in FlagWords
    /\ word = 0
    /\ cfg2 = ConfigNew
    /\ cerr = "none"

\* cfg = Config::parse(flagsIn); a panic returns no Config.
Parse ==
    /\ cpc = "input"
    /\ LET r == ConfigParse(flagsIn)
       IN  /\ cerr' = r.err
           /\ IF r.err = "none"
              THEN cfg' = r.cfg /\ cpc' = "parsed"
              ELSE cfg' = cfg /\ cpc' = "rejected"
    /\ UNCHANGED <<flagsIn, word, cfg2>>
    /\ UNCHANGED <<tailVars, lookupVars, restVars>>

NextParse == Parse

SpecParse == InitParse /\ [][NextParse]_vars

\* -------------------------------------------------------- Config properties
\* The four fields of a flag word, by position.
NumField(f) == f % 128
CacheField(f) == (f \div 128) % 32
TailField(f) == (f \div 4096) % 16
OrderField(f) == (f \div 65536) % 16
HighBits(f) == f \div 1048576

CacheOfField(x) ==
    CASE x = 1 -> "Huge" [] x = 2 -> "Large" [] x = 4 -> "Normal"
      [] x = 8 -> "Small" [] x = 16 -> "Tiny" [] OTHER -> "undefined"
TailOfField(x) == CASE x = 1 -> Text [] x = 2 -> Binary [] OTHER -> "undefined"
OrderOfField(x) == CASE x = 1 -> "Label" [] x = 2 -> "Weight" [] OTHER -> "undefined"

\* C8: Config::parse defaults. For an accepted flag word each field is decoded
\* from its own bits alone, an all-zero field yields the field's default
\* (3, Normal, Text, Weight), and parse(0) is Config::new().
C8_ParseDefaults ==
    cpc = "parsed" =>
        /\ cfg.num_tries_ =
              IF NumField(flagsIn) = 0 THEN 3 ELSE NumField(flagsIn)
        /\ cfg.cache_level_ =
              IF CacheField(flagsIn) = 0 THEN "Normal" ELSE CacheOfField(CacheField(flagsIn))
        /\ cfg.tail_mode_ =
              IF TailField(flagsIn) = 0 THEN Text ELSE TailOfField(TailField(flagsIn))
        /\ cfg.node_order_ =
              IF OrderField(flagsIn) = 0 THEN "Weight" ELSE OrderOfField(OrderField(flagsIn))
        /\ flagsIn = 0 =>
              cfg = [num_tries_ |-> 3, cache_level_ |-> "Normal",
                     tail_mode_ |-> Text, node_order_ |-> "Weight"]

\* C8 witness: an accepted word with two zero fields and two non-default ones.
C8_Witness ==
    /\ cpc = "parsed"
    /\ NumField(flagsIn) = 0
    /\ TailField(flagsIn) = 0
    /\ cfg.cache_level_ = "Tiny"
    /\ cfg.node_order_ = "Label"
    /\ cfg.num_tries_ = 3
    /\ cfg.tail_mode_ = Text

\* C9: Config::parse rejection. parse fails iff a bit outside the 20-bit mask
\* is set, or the cache_level field is neither 0 nor one of the five levels,
\* or the tail_mode field is neither 0, Text nor Binary, or the node_order
\* field is neither 0, Label nor Weight; every num_tries field is accepted.
C9_ParseRejection ==
    cpc \in {"parsed", "rejected"} =>
        (cpc = "rejected" <=>
            \/ HighBits(flagsIn) # 0
            \/ CacheField(flagsIn) \notin {0, 1, 2, 4, 8, 16}
            \/ TailField(flagsIn) \notin {0, 1, 2}
            \/ OrderField(flagsIn) \notin {0, 1, 2})

\* C9 witness: a word inside the mask rejected for its cache_level field alone.
C9_Witness ==
    /\ cpc = "rejected"
    /\ HighBits(flagsIn) = 0
    /\ NumField(flagsIn) = 127
    /\ CacheField(flagsIn) = 3
    /\ TailField(flagsIn) = 2
    /\ OrderField(flagsIn) = 1
    /\ cerr = "MARISA_CODE_ERROR: undefined cache level"

\* C10: flag word round-trip. flags() holds num_tries in bits 0-6, cache_level
\* in bits 7-11, tail_mode in bits 12-15 and node_order in bits 16-19, and
\* Config::parse(c.flags()) has the four settings of c.
C10_FlagsRoundTrip ==
    /\ cpc \in {"flagged", "reparsed"} =>
          word = cfg.num_tries_ + CacheLevelU32(cfg.cache_level_)
                 + TailModeU32(cfg.tail_mode_) + NodeOrderU32(cfg.node_order_)
    /\ cpc = "reparsed" => (cerr = "none" /\ cfg2 = cfg)



\* ---------------------------------------------------------- lookup actions
\* Two byte values suffice for every case of the read path: 0 promotes the
\* TAIL to Binary, and with 33 the edges (parent 0, label 0) and (parent 1,
\* label 33) share cache slot 0, (0, 33) and (1, 0) share slot 33.
KeyBytes == {0, 33}
GarbageBytes == {0, 33}

KeyPool == SeqsUpTo(KeyBytes, MaxKeyLen)
RECURSIVE SetsUpTo(_, _)
SetsUpTo(S, n) ==
    IF n = 0 THEN {{}}
    ELSE LET P == SetsUpTo(S, n - 1) IN P \cup {K \cup {k} : K \in P, k \in S}
RECURSIVE BytesOf(_)
BytesOf(K) ==
    IF K = {} THEN 0
    ELSE LET k == CHOOSE x \in K : TRUE IN Len(k) + BytesOf(K \ {k})
KeySets == {K \in SetsUpTo(KeyPool, MaxKeys) : BytesOf(K) <= MaxKeyBytes}
Queries == SeqsUpTo(KeyBytes, MaxQuery)

\* A dictionary has been built over some key set with one or two levels, its
\* caches filled or empty; lookup_init has run on a query.
InitLookup ==
    /\ TailIdle
    /\ ConfigIdle
    /\ RestIdle
    /\ keys \in KeySets
    /\ \E num_tries \in {1, 2}, cached \in BOOLEAN : dict = BuildDict(keys, num_tries, cached)
    /\ query \in Queries
    /\ query_pos = 0
    /\ node_id = 0
    /\ lpc = "running"
    /\ key_id = INVALID
    /\ calls = 0
    /\ fc = NoCall
    /\ oobRead = FALSE

\* nav.rs 304-308: one iteration of lookup's loop, a whole find_child call.
LookupStep ==
    /\ lpc = "running"
    /\ query_pos < Len(query)
    /\ \E g \in GarbageBytes :
          LET r == find_child(dict, node_id, query, query_pos, g)
          IN  /\ node_id' = r.node_id
              /\ query_pos' = r.query_pos
              /\ oobRead' = (oobRead \/ r.oob)
              /\ fc' = [node |-> node_id, qpos |-> query_pos, ok |-> r.ok,
                        path |-> r.path, tried |-> r.tried]
              /\ lpc' = IF r.ok THEN "running" ELSE "notfound"
    /\ calls' = calls + 1
    /\ UNCHANGED <<keys, dict, query, key_id>>
    /\ UNCHANGED <<tailVars, configVars, restVars>>

\* nav.rs 309-314: the loop has ended, the terminal flag decides.
LookupFinish ==
    /\ lpc = "running"
    /\ query_pos >= Len(query)
    /\ LET e == LookupEnd(dict, node_id)
       IN  /\ lpc' = IF e.found THEN "found" ELSE "notfound"
           /\ key_id' = e.key_id
    /\ UNCHANGED <<keys, dict, query, query_pos, node_id, calls, fc, oobRead>>
    /\ UNCHANGED <<tailVars, configVars, restVars>>

NextLookup == LookupStep \/ LookupFinish

SpecLookup == InitLookup /\ [][NextLookup]_vars

\* ------------------------------------------------------- lookup properties
Outer == dict.tries[1]

Looking == lpc # "idle"

\* The children of node n of level t, by the builder's parent table.
Children(t, n) == {id \in 1..(t.n - 1) : t.parent[id] = n}

\* The number of leading bytes of lab that equal the query bytes from p on.
RECURSIVE CommonAt(_, _, _)
CommonAt(lab, q, p) ==
    IF lab = <<>> \/ p >= Len(q) \/ lab[1] # q[p + 1] THEN 0
    ELSE 1 + CommonAt(Tail(lab), q, p + 1)

Last(s) == s[Len(s)]

\* C3: exact lookup outcome.  Lookup starts at the root with query_pos = 0;
\* every find_child call is made with query_pos < len(query); a failed
\* find_child makes lookup return not-found at once; otherwise lookup ends
\* only when the query is exhausted, and then it succeeds iff
\* terminal_flags[node_id] is set and reports key id
\* rank1(terminal_flags, node_id), the number of terminals with a smaller
\* id.  The empty query makes no find_child call and succeeds iff the root
\* is a terminal, which is iff the empty key was inserted.
C3_LookupOutcome ==
    Looking =>
        LET tf == Outer.terminal_flags_
        IN  /\ calls = 0 => node_id = 0 /\ query_pos = 0
            /\ calls > 0 => fc.qpos < Len(query)
            /\ (calls > 0 /\ ~fc.ok) => lpc = "notfound"
            /\ (lpc # "running" /\ fc.ok) =>
                  /\ query_pos >= Len(query)
                  /\ (lpc = "found") = tf[node_id + 1]
            /\ lpc = "found" =>
                  /\ key_id = rank1(tf, node_id)
                  /\ key_id = Cardinality({i \in 0..(node_id - 1) : tf[i + 1]})
            /\ lpc # "found" => key_id = INVALID
            /\ query = <<>> =>
                  /\ calls = 0
                  /\ lpc # "running" => ((lpc = "found") = tf[1])
                  /\ tf[1] = (<<>> \in keys)

\* A lookup of two or more steps has ended at a terminal that is not the
\* first one.
C3_Witness ==
    /\ lpc = "found"
    /\ calls >= 2
    /\ key_id >= 1

\* The empty query has been found.
C3_WitnessEmpty ==
    /\ lpc = "found"
    /\ query = <<>>

\* The result of trying sibling c at query position p on the scan path.
TryChild(d, c, q, p) ==
    IF d.tries[1].link_flags_[c]
    THEN Match(d, 1, d.tries[1].links[c], q, p, 0, FALSE)
    ELSE MatchResult(d.tries[1].bases_[c] = q[p + 1],
                     IF d.tries[1].bases_[c] = q[p + 1] THEN p + 1 ELSE p, FALSE)

\* C4: the sibling scan of find_child (cache miss).  A node without a child
\* fails.  Otherwise the children are tried in sibling order from the first
\* child louds_pos - node_id - 1; every sibling before the last one tried
\* failed without advancing query_pos; the last one tried decides: a direct
\* child matches iff bases[child] = query[query_pos], advancing query_pos by
\* exactly 1; a linked child whose submatch succeeds ends the scan with
\* success; one that fails after advancing query_pos makes find_child fail
\* at once; failure without advance on the last sibling makes it fail.
C4_SiblingScan ==
    (Looking /\ calls > 0 /\ fc.path = "scan") =>
        LET t == Outer
            n == fc.node
            p == fc.qpos
            ch == Children(t, n)
            tr == fc.tried
            first == select0(t.louds_, n) + 1 - n - 1
        IN  IF ch = {}
            THEN ~fc.ok /\ tr = <<>> /\ node_id = n /\ query_pos = p
            ELSE /\ tr # <<>>
                 /\ tr[1] = first
                 /\ \A c \in ch : first <= c
                 /\ \A i \in 1..Len(tr) : tr[i] = first + i - 1 /\ tr[i] \in ch
                 /\ \A i \in 1..(Len(tr) - 1) :
                       LET m == TryChild(dict, tr[i], query, p)
                       IN  ~m.ok /\ m.query_pos = p
                 /\ LET c == Last(tr)
                        m == TryChild(dict, c, query, p)
                    IN  /\ fc.ok = m.ok
                        /\ m.ok => node_id = c /\ query_pos = m.query_pos
                        /\ ~t.link_flags_[c] =>
                              /\ m.ok = (t.bases_[c] = query[p + 1])
                              /\ m.ok => query_pos = p + 1
                        /\ (~m.ok /\ m.query_pos # p) => query_pos = m.query_pos
                        /\ (~m.ok /\ m.query_pos = p) =>
                              /\ \A o \in ch : o <= c
                              /\ query_pos = p

\* A linked sibling failed after advancing query_pos and find_child returned
\* false although a later sibling had not been tried.
C4_Witness ==
    /\ Looking
    /\ calls > 0
    /\ fc.path = "scan"
    /\ ~fc.ok
    /\ fc.tried # <<>>
    /\ Outer.link_flags_[Last(fc.tried)]
    /\ query_pos # fc.qpos
    /\ \E o \in Children(Outer, fc.node) : o > Last(fc.tried)

\* C5: cache transparency.  For every node and every query position not yet
\* passed, find_child with the cache consulted returns the same boolean as find_child
\* restricted to the sibling scan and on success leaves the same node_id and
\* query_pos; a slot whose parent field equals the node describes a child of
\* that node whose label starts with query[query_pos].
C5_CacheTransparency ==
    Looking =>
        \A n \in 0..(Outer.n - 1) : \A p \in query_pos..(Len(query) - 1) :
            LET a == find_child(dict, n, query, p, 0)
                b == FindChildScan(dict, n, query, p, 0)
                e == CacheSlot(Outer, get_cache_id(n, query[p + 1], Outer.cache_mask_))
            IN  /\ a.ok = b.ok
                /\ a.ok => a.node_id = b.node_id /\ a.query_pos = b.query_pos
                /\ e.parent = n =>
                      /\ a.path = "hit"
                      /\ e.child \in Children(Outer, n)
                      /\ Outer.label[e.child][1] = query[p + 1]

\* In a dictionary with a filled cache, the root's edge for query[0] had been
\* evicted by a collision, so the first find_child call was answered by the
\* scan, and a later call was answered by the cache.
C5_Witness ==
    /\ Looking
    /\ Outer.cache_ # <<>>
    /\ calls >= 2
    /\ fc.path = "hit"
    /\ fc.ok
    /\ \E c \in Children(Outer, 0) : Outer.label[c][1] = query[1]
    /\ CacheSlot(Outer, get_cache_id(0, query[1], Outer.cache_mask_)).parent # 0

\* The bytes, in query order, that match_ matches from node id of inner level
\* t up to its root.
RECURSIVE PathBytes(_, _)
PathBytes(t, id) ==
    IF id = 0 THEN <<>> ELSE Reverse(t.label[id]) \o PathBytes(t, t.parent[id])

\* What a match of label lab at position p of the query must return.
MatchesLabel(m, lab, q, p) ==
    /\ ~m.oob
    /\ m.query_pos = p + CommonAt(lab, q, p)
    /\ m.query_pos <= Len(q)
    /\ m.ok = (CommonAt(lab, q, p) = Len(lab))

\* C6: query bound.  In every state of a lookup query_pos <= len(query) and
\* no query byte at an index >= len(query) has been read.  From every query
\* position not yet passed, match_ at an inner level and Tail::match (Text and Binary)
\* consume exactly the bytes the label and the query have in common, fail
\* when the query is exhausted before the label, and succeed only when the
\* whole label has been matched.
C6_QueryBound ==
    Looking =>
        /\ query_pos <= Len(query)
        /\ ~oobRead
        /\ \A p \in query_pos..(Len(query) - 1) :
              /\ Len(dict.tries) = 2 =>
                    \A id \in 1..(dict.tries[2].n - 1) :
                        MatchesLabel(match_(dict, 2, id, query, p, 0, FALSE),
                                     PathBytes(dict.tries[2], id), query, p)
              /\ LET lvl == Len(dict.tries)
                     t == dict.tries[lvl]
                 IN  \A id \in DOMAIN t.links :
                        MatchesLabel(TailMatch(dict.tail, t.links[id], query, p, 0, FALSE),
                                     IF lvl = 1 THEN t.label[id] ELSE Reverse(t.label[id]),
                                     query, p)

\* A match through the inner level ran out of query inside a label: find_child
\* failed with query_pos advanced to len(query).
C6_Witness ==
    /\ Looking
    /\ calls > 0
    /\ ~fc.ok
    /\ query_pos > fc.qpos
    /\ query_pos = Len(query)
    /\ Len(dict.tries) = 2

\* The same against a Text TAIL and against a Binary TAIL.
C6_WitnessText ==
    /\ Looking
    /\ calls > 0
    /\ ~fc.ok
    /\ query_pos > fc.qpos
    /\ query_pos = Len(query)
    /\ Len(dict.tries) = 1
    /\ dict.tail.end_flags_ = <<>>

C6_WitnessBinary ==
    /\ Looking
    /\ calls > 0
    /\ ~fc.ok
    /\ query_pos > fc.qpos
    /\ query_pos = Len(query)
    /\ Len(dict.tries) = 1
    /\ dict.tail.end_flags_ # <<>>

\* The parent match_ moves to from node `node` of inner level t (nav.rs
\* 421-427), and the slot of the inner cache the node maps to.
InnerParent(t, node) == select1(t.louds_, node) - node - 1
InnerSlot(t, node) == CacheSlot(t, get_cache_id_node(node, t.cache_mask_))

\* Every iteration of match_ moves to a node with a smaller id, the parent,
\* on the cache path and on the LOUDS path alike, and the walk stops exactly
\* at the children of the root.
ParentWalkDescends ==
    \A lvl \in 2..Len(dict.tries) :
        LET t == dict.tries[lvl]
        IN  \A node \in 1..(t.n - 1) :
                /\ InnerParent(t, node) = t.parent[node]
                /\ InnerParent(t, node) >= 0
                /\ InnerParent(t, node) < node
                /\ (node <= t.num_l1_nodes_) = (InnerParent(t, node) = 0)
                /\ node = InnerSlot(t, node).child =>
                      InnerSlot(t, node).parent = t.parent[node]

\* C18: lookup progress and termination.  Every find_child call that returned
\* true moved to a child of the node it started at and advanced query_pos by
\* the length of that child's label: exactly 1 for a direct edge, the whole
\* label (2 or more) for a linked edge, on the cache-hit and the scan path.
\* So the number of calls never exceeds query_pos after a success, nor
\* len(query) in any state, and a running lookup can always take its next
\* step.  At every inner level match_ moves from a node to its parent, whose
\* id is smaller, and stops at the children of the root.
C18_LookupProgress ==
    Looking =>
        /\ (calls > 0 /\ fc.ok) =>
              /\ fc.path \in {"hit", "scan"}
              /\ Outer.parent[node_id] = fc.node
              /\ query_pos >= fc.qpos + 1
              /\ query_pos = fc.qpos + Len(Outer.label[node_id])
              /\ Outer.link_flags_[node_id] = (Len(Outer.label[node_id]) >= 2)
              /\ ~Outer.link_flags_[node_id] => query_pos = fc.qpos + 1
              /\ calls <= query_pos
        /\ calls <= Len(query)
        /\ (calls > 0 /\ ~fc.ok) => lpc = "notfound"
        /\ calls = 0 => ParentWalkDescends

\* C18 witness: in a two-level dictionary with empty caches a second
\* find_child call succeeded over a linked edge on the scan path.
C18_Witness ==
    /\ Looking
    /\ Len(dict.tries) = 2
    /\ calls = 2
    /\ fc.ok
    /\ fc.path = "scan"
    /\ Outer.link_flags_[node_id]
    /\ query_pos = fc.qpos + 2

\* C18, cache-hit case: a linked edge taken through the cache.
C18_WitnessHit ==
    /\ Looking
    /\ calls >= 1
    /\ fc.ok
    /\ fc.path = "hit"
    /\ Outer.link_flags_[node_id]
    /\ query_pos >= fc.qpos + 2

\* -------------------------------------------------------- NumTries actions
\* The flag words handed to Config::parse between the setters: every field
\* zero, num_tries at its ends, every field set, and two rejected words.
ParseWords ==
    {0, MIN_NUM_TRIES, MAX_NUM_TRIES, MAX_NUM_TRIES + 128 + 8192 + 65536, 3968, 1048576}

InitNumTries ==
    /\ TailIdle
    /\ LookupIdle
    /\ KeyIdle
    /\ CtzIdle
    /\ cfg = ConfigNew
    /\ cpc = "ready"
    /\ flagsIn = 0
    /\ word = 0
    /\ cfg2 = ConfigNew
    /\ cerr = "none"
    /\ numIn \in 0..MaxNumIn
    /\ nt = 0
    /\ ntpc = "input"
    /\ shrunk = <<>>

\* nt = NumTries::new(numIn)
NewNumTries ==
    /\ ntpc = "input"
    /\ LET r == NumTriesNew(numIn)
       IN  IF r.ok THEN nt' = r.num_ /\ ntpc' = "ok"
           ELSE nt' = nt /\ ntpc' = "new_panicked"
    /\ UNCHANGED <<numIn, shrunk>>
    /\ UNCHANGED <<tailVars, configVars, lookupVars, keyVars, ctzVars>>

\* cfg.set_num_tries(nt) / cfg.with_num_tries(nt)
SetNumTriesFrom ==
    /\ ntpc = "ok"
    /\ cpc = "ready"
    /\ cfg' = [cfg EXCEPT !.num_tries_ = nt]
    /\ UNCHANGED <<cpc, flagsIn, word, cfg2, cerr>>
    /\ UNCHANGED <<tailVars, lookupVars, restVars>>

\* cfg = Config::parse(w); a panic returns no Config and cfg stays.
ParseInto ==
    /\ cpc = "ready"
    /\ \E w \in ParseWords :
          LET r == ConfigParse(w)
          IN  cfg' = IF r.err = "none" THEN r.cfg ELSE cfg
    /\ UNCHANGED <<cpc, flagsIn, word, cfg2, cerr>>
    /\ UNCHANGED <<tailVars, lookupVars, restVars>>

\* nt.shrink()
Shrink ==
    /\ ntpc = "ok"
    /\ LET r == NumTriesShrink(nt)
       IN  IF r.ok THEN shrunk' = r.items /\ ntpc' = "shrunk"
           ELSE shrunk' = shrunk /\ ntpc' = "shrink_panicked"
    /\ UNCHANGED <<numIn, nt>>
    /\ UNCHANGED <<tailVars, configVars, lookupVars, keyVars, ctzVars>>

NextNumTries ==
    \/ NewNumTries
    \/ SetNumTriesFrom
    \/ SetCacheLevel
    \/ SetTailMode
    \/ SetNodeOrder
    \/ Clear
    \/ ParseInto
    \/ Shrink

SpecNumTries == InitNumTries /\ [][NextNumTries]_vars

\* ----------------------------------------------------- NumTries properties
NumTriesActive == ntpc # "idle"

C11_Range ==
    NumTriesActive =>
        /\ ConfigNew.num_tries_ = 3
        /\ cfg.num_tries_ >= 1 /\ cfg.num_tries_ <= 127
        /\ ntpc \in {"ok", "shrunk", "shrink_panicked"} =>
              nt = numIn /\ numIn >= 1 /\ numIn <= 127
        /\ ntpc = "new_panicked" => numIn < 1 \/ numIn > 127

C11_Frame ==
    /\ SetNumTriesFrom =>
          /\ cfg'.num_tries_ = nt
          /\ cfg'.cache_level_ = cfg.cache_level_
          /\ cfg'.tail_mode_ = cfg.tail_mode_
          /\ cfg'.node_order_ = cfg.node_order_
    /\ SetCacheLevel =>
          /\ cfg'.num_tries_ = cfg.num_tries_
          /\ cfg'.tail_mode_ = cfg.tail_mode_
          /\ cfg'.node_order_ = cfg.node_order_
    /\ SetTailMode =>
          /\ cfg'.num_tries_ = cfg.num_tries_
          /\ cfg'.cache_level_ = cfg.cache_level_
          /\ cfg'.node_order_ = cfg.node_order_
    /\ SetNodeOrder =>
          /\ cfg'.num_tries_ = cfg.num_tries_
          /\ cfg'.cache_level_ = cfg.cache_level_
          /\ cfg'.tail_mode_ = cfg.tail_mode_

\* C11: num_tries range.  NumTries::new(n) succeeds iff 1 <= n <= 127, the
\* default is 3, the config's num_tries lies in [1, 127] after any sequence
\* of Config::new, Config::parse, set_num_tries and clear, and each setter
\* changes only its own field.
C11_NumTriesRange == []C11_Range /\ [][C11_Frame]_vars

\* All four setters have acted: no field has its default, num_tries is a
\* value that no parsed word of ParseWords carries.
C11_Witness ==
    /\ ntpc = "ok"
    /\ numIn = 100
    /\ cfg = [num_tries_ |-> 100, cache_level_ |-> "Tiny",
              tail_mode_ |-> Binary, node_order_ |-> "Label"]

\* C20: NumTries::shrink stays in range.  For every NumTries n, shrink
\* returns without failing, yields the single value n / 2 when n / 2 >= 1
\* and nothing when n / 2 = 0, and constructs no NumTries outside [1, 127].
C20_ShrinkInRange ==
    /\ ntpc # "shrink_panicked"
    /\ ntpc = "shrunk" =>
          /\ numIn \div 2 >= 1 => shrunk = <<numIn \div 2>>
          /\ numIn \div 2 = 0 => shrunk = <<>>
          /\ \A i \in 1..Len(shrunk) : shrunk[i] >= 1 /\ shrunk[i] <= 127

\* ------------------------------------------------------------- Key actions
SliceBytes == {1, 2, 3}
KeyKinds == {"Key", "ReverseKey"}

\* A key over some slice, its weight/terminal bits and id set or not.
InitKey ==
    /\ TailIdle
    /\ ConfigIdle
    /\ LookupIdle
    /\ NumIdle
    /\ CtzIdle
    /\ \E kind \in KeyKinds, slice \in SeqsUpTo(SliceBytes, MaxSliceLen),
          bits \in {0, 7}, id \in {0, 5} :
          key = [KeyNew(kind, slice) EXCEPT !.bits_ = bits, !.id_ = id]
    /\ kprev = key
    /\ kpc = "ready"
    /\ kpos = 0
    /\ klen = 0

\* key.subslice(pos, length), for any two usize values.  An overflow in the
\* check panics in a checked build and wraps in an unchecked one.
Subslice ==
    /\ kpc \in {"ready", "sliced", "converted"}
    /\ \E pos \in 0..UsizeMax, length \in 0..UsizeMax :
          LET r == KeySubslice(key, pos, length)
          IN  /\ kpos' = pos
              /\ klen' = length
              /\ \/ /\ r.overflow
                    /\ kpc' = "arith_overflow"
                    /\ key' \in {key, r.key}
                 \/ /\ ~r.overflow
                    /\ key' = r.key
                    /\ kpc' = IF r.err = "none" THEN "sliced"
                              ELSE IF r.err = "MARISA_BOUND_ERROR" THEN "bound_error"
                              ELSE "index_panic"
    /\ kprev' = key
    /\ UNCHANGED <<tailVars, configVars, lookupVars, numVars, ctzVars>>

\* key = ReverseKey::from_key(&key)
FromKey ==
    /\ kpc \in {"ready", "sliced"}
    /\ key.kind = "Key"
    /\ key' = ReverseKeyFromKey(key)
    /\ kprev' = key
    /\ kpc' = "converted"
    /\ UNCHANGED <<kpos, klen>>
    /\ UNCHANGED <<tailVars, configVars, lookupVars, numVars, ctzVars>>

NextKey == Subslice \/ FromKey

SpecKey == InitKey /\ [][NextKey]_vars

\* ---------------------------------------------------------- Key properties
KeyActive == kpc # "idle"

\* C12: key orientation.  Key.at(i) is the i-th byte from the front of the
\* slice, ReverseKey.at(i) the i-th from the back; after a successful
\* subslice(pos, length), len() = length, at(i) is what at(pos + i) was, and
\* weight/terminal and id are unchanged; ReverseKey::from_key(k).at(i) is
\* k.at(len - 1 - i).
C12_KeyOrientation ==
    KeyActive =>
        /\ \A i \in 0..(KeyLen(key) - 1) :
              KeyAt(key, i) = IF key.kind = "Key" THEN key.slice_[i + 1]
                              ELSE Reverse(key.slice_)[i + 1]
        /\ kpc = "sliced" =>
              /\ KeyLen(key) = klen
              /\ \A i \in 0..(klen - 1) : KeyAt(key, i) = KeyAt(kprev, kpos + i)
              /\ key.bits_ = kprev.bits_
              /\ key.id_ = kprev.id_
              /\ key.kind = kprev.kind
        /\ kpc = "converted" =>
              /\ key.kind = "ReverseKey"
              /\ KeyLen(key) = KeyLen(kprev)
              /\ \A i \in 0..(KeyLen(key) - 1) :
                    KeyAt(key, i) = KeyAt(kprev, KeyLen(kprev) - 1 - i)

\* A ReverseKey has been cut to an inner part, bytes dropped at both ends.
C12_Witness ==
    /\ kpc = "sliced"
    /\ key.kind = "ReverseKey"
    /\ kpos >= 1
    /\ klen >= 1
    /\ KeyLen(kprev) > kpos + klen

\* C13: the bound check of subslice.  subslice(pos, length) succeeds iff
\* length <= len() and pos <= len() - length; otherwise it fails with a
\* bound error and leaves slice, weight/terminal and id as they were; the
\* check never underflows or overflows.
C13_SubsliceBound ==
    kpc \in {"sliced", "bound_error", "arith_overflow", "index_panic"} =>
        /\ kpc \notin {"arith_overflow", "index_panic"}
        /\ (kpc = "sliced") = (klen <= KeyLen(kprev) /\ kpos <= KeyLen(kprev) - klen)
        /\ kpc = "bound_error" => key = kprev

\* subslice was refused although pos + length wraps around to a sum that is
\* within the slice.
C13_Witness ==
    /\ kpc = "bound_error"
    /\ klen >= 1
    /\ klen <= KeyLen(kprev)
    /\ kpos = UsizeMax + 1 - klen

\* ------------------------------------------------------------- Ctz actions
\* The operands of a type: zero, all ones, and every bit position as the
\* lowest 1-bit with each pattern of higher bits of CtzPatterns above it.
CtzPatterns == SUBSET {1, 2, 5}
CtzOperands(ty) ==
    LET w == TypeBits(ty)
    IN  {{}, 0..(w - 1)} \cup
        {({k} \cup {k + d : d \in D}) \cap (0..(w - 1)) : k \in 0..(w - 1), D \in CtzPatterns}

InitCtz ==
    /\ TailIdle
    /\ ConfigIdle
    /\ LookupIdle
    /\ NumIdle
    /\ KeyIdle
    /\ ctzTy \in CtzTypes
    /\ ctzIn \in CtzOperands(ctzTy)
    /\ ctzpc = "input"
    /\ ctzOut = 0

\* ctzOut = ctzIn.ctz().  An overflowing negation panics in a build with
\* overflow checks and wraps in a build without.
CtzCall ==
    /\ ctzpc = "input"
    /\ LET r == CtzOf(ctzTy, ctzIn)
       IN  \/ /\ r.overflow
              /\ ctzpc' = "overflow_panic"
              /\ ctzOut' = ctzOut
           \/ /\ ctzpc' = "returned"
              /\ ctzOut' = r.value
    /\ UNCHANGED <<ctzTy, ctzIn>>
    /\ UNCHANGED <<tailVars, configVars, lookupVars, numVars, keyVars>>

NextCtz == CtzCall

SpecCtz == InitCtz /\ [][NextCtz]_vars

\* ---------------------------------------------------------- Ctz properties
\* C14: ctz counts trailing zeros.  For every operand type and value, ctz
\* returns, without an arithmetic overflow failure, the position of the
\* lowest 1-bit, and the bit width of the type for zero.
C14_CtzCounts ==
    /\ ctzpc # "overflow_panic"
    /\ ctzpc = "returned" =>
          IF ctzIn = {} THEN ctzOut = TypeBits(ctzTy)
          ELSE ctzOut \in ctzIn /\ \A i \in 0..(ctzOut - 1) : i \notin ctzIn
====
